---------------------------- MODULE Spec2Model ----------------------------
(***************************************************************************)
(* Model of the GitHub trends dashboard (src/dashboard_analysis.py): one   *)
(* render of main() as a pipeline                                          *)
(*   find_one -> find -> merge categories -> DataFrame -> format_metrics   *)
(*   -> filters -> summary / category breakdown / top performers.          *)
(*                                                                         *)
(* Representation.                                                         *)
(*  - A number is a record [k, v]: k = "num" with v the value in           *)
(*    thousandths (1.234 is 1234, 5 stars are 5000), or k = "null" (None   *)
(*    or NaN: pandas stores both as NaN), "inf", "ninf".                   *)
(*  - A category is a sequence of one-character strings, so that           *)
(*    str.capitalize and str.lower are computed character by character;    *)
(*    None is the one-element sequence NoneCat.                            *)
(*  - A document of the analysis collection carries full_name (NoName when *)
(*    the key is missing), analysis_date, a category field of its own and  *)
(*    the five numeric fields; the pass-through text columns (author,      *)
(*    description, url) take no part in any computation and are left out.  *)
(*  - A DataFrame is the sequence of its rows; idx is the row's label in   *)
(*    the RangeIndex pd.DataFrame gives it.                                *)
(*  - A session is a sequence of renders: check_password gates each one,  *)
(*    password_entered runs between two renders (SpecGate). SpecConc adds  *)
(*    a producer that inserts analysis documents between the two reads.    *)
(***************************************************************************)
EXTENDS Integers, Sequences, FiniteSets, TLC

VARIABLES
    analysis,            \* db['analysis']: the documents, in natural order
    repositories,        \* db['repositories']
    pc,                  \* position of the render in main()
    latest_date,         \* get_latest_analysis: latest_date
    latest_analysis,     \* get_latest_analysis: latest_analysis (the list)
    analysis_data,       \* main: analysis_data, [tag, docs]
    df,                  \* main: df
    selected_categories, \* main: selected_categories, after .lower()
    min_growth,          \* main: min_growth
    min_star_growth,     \* main: min_star_growth
    min_end_stars,       \* main: min_end_stars
    filtered_df,         \* main: filtered_df
    summary,             \* the four st.metric values of the summary block
    category_stats,      \* main: category_stats
    top_performers_df,   \* main: top_performers_df
    top_growth,          \* main: top_growth
    top_stars,           \* main: top_stars
    screen,              \* what the render has put on the page so far
    x0,                  \* normalization harness: the batch given
    x1,                  \* normalization harness: format_metrics(x0)
    x2,                  \* normalization harness: format_metrics(x1)
    secrets,             \* st.secrets: MONGODB_URI and password
    environ,             \* os.environ: STREAMLIT_PASSWORD
    session_state,       \* st.session_state: password_correct and password
    queries,             \* the store queries this render has issued
    renders              \* the number of the render (script run) in the session

storeVars == <<analysis, repositories>>
fetchVars == <<latest_date, latest_analysis, analysis_data>>
viewVars == <<selected_categories, min_growth, min_star_growth, min_end_stars,
              filtered_df>>
aggVars == <<summary, category_stats, top_performers_df, top_growth, top_stars>>
frameVars == <<df>>
harnessVars == <<x0, x1, x2>>
configVars == <<secrets, environ>>
sessionVars == <<session_state, renders>>
vars == <<analysis, repositories, pc, latest_date, latest_analysis,
          analysis_data, df, selected_categories, min_growth, min_star_growth,
          min_end_stars, filtered_df, summary, category_stats,
          top_performers_df, top_growth, top_stars, screen, x0, x1, x2,
          secrets, environ, session_state, queries, renders>>

-----------------------------------------------------------------------------
(* Bounds of the model *)

MaxDocs == 2        \* documents in the analysis collection (Spec)
MaxRepos == 2       \* documents in the repositories collection (Spec)
MaxView == 2        \* records of the batch (SpecView)
MaxTop == 6         \* records of the batch (SpecTop)
MaxBatch == 1       \* records of the batch given to format_metrics (SpecNormalize)
MaxRenders == 3     \* renders of one session (SpecGate)
MaxStore == 3       \* documents of the analysis collection under inserts (SpecConc)

-----------------------------------------------------------------------------
(* Sequences *)

Range(s) == {s[i] : i \in 1..Len(s)}

SeqsUpTo(S, n) == UNION {[1..m -> S] : m \in 0..n}

Take(s, n) == SubSeq(s, 1, IF n < Len(s) THEN n ELSE Len(s))

RECURSIVE SumSeq(_)
SumSeq(s) == IF s = <<>> THEN 0 ELSE Head(s) + SumSeq(Tail(s))

Abs(n) == IF n < 0 THEN -n ELSE n

-----------------------------------------------------------------------------
(* Numbers *)

Num(v) == [k |-> "num", v |-> v]
NullV == [k |-> "null", v |-> 0]
PosInf == [k |-> "inf", v |-> 0]
NegInf == [k |-> "ninf", v |-> 0]

IsFinite(x) == x.k = "num"

\* numerator / denominator rounded half to even to a multiple of step
\* (numpy.round: rint of the scaled value), denominator # 0
RoundDiv(numer, denom, step) ==
    LET n == IF denom < 0 THEN -numer ELSE numer
        d == Abs(denom) * step
        q == n \div d
        r == n % d
    IN  IF 2 * r < d THEN q * step
        ELSE IF 2 * r > d THEN (q + 1) * step
        ELSE IF q % 2 = 0 THEN q * step ELSE (q + 1) * step

-----------------------------------------------------------------------------
(* Strings: str.capitalize, str.lower and the order sorted() uses *)

Uppers == <<"B", "E", "L", "M", "W">>
Lowers == <<"b", "e", "l", "m", "w">>

NoneCat == <<"None">>

IsNoneCat(c) == c = NoneCat

CharLower(ch) ==
    IF \E i \in 1..Len(Uppers) : Uppers[i] = ch
    THEN Lowers[CHOOSE i \in 1..Len(Uppers) : Uppers[i] = ch]
    ELSE ch

CharUpper(ch) ==
    IF \E i \in 1..Len(Lowers) : Lowers[i] = ch
    THEN Uppers[CHOOSE i \in 1..Len(Lowers) : Lowers[i] = ch]
    ELSE ch

\* code point order: every upper-case letter sorts before every lower-case one
CharRank(ch) ==
    IF \E i \in 1..Len(Uppers) : Uppers[i] = ch
    THEN CHOOSE i \in 1..Len(Uppers) : Uppers[i] = ch
    ELSE Len(Uppers) + (CHOOSE i \in 1..Len(Lowers) : Lowers[i] = ch)

StrLower(s) == [i \in 1..Len(s) |-> CharLower(s[i])]

StrCapitalize(s) ==
    [i \in 1..Len(s) |-> IF i = 1 THEN CharUpper(s[i]) ELSE CharLower(s[i])]

\* `cat.capitalize() if cat else cat`: None and "" are falsy
CapitalizeIf(c) == IF IsNoneCat(c) \/ c = <<>> THEN c ELSE StrCapitalize(c)

\* `cat.lower() if cat else cat`
LowerIf(c) == IF IsNoneCat(c) \/ c = <<>> THEN c ELSE StrLower(c)

RECURSIVE StrLess(_, _)
StrLess(a, b) ==
    IF b = <<>> THEN FALSE
    ELSE IF a = <<>> THEN TRUE
    ELSE IF Head(a) = Head(b) THEN StrLess(Tail(a), Tail(b))
    ELSE CharRank(Head(a)) < CharRank(Head(b))

\* sorted(S) for a set of strings
RECURSIVE SortedStrs(_)
SortedStrs(S) ==
    IF S = {} THEN <<>>
    ELSE LET m == CHOOSE a \in S : \A b \in S : a = b \/ StrLess(a, b)
         IN  <<m>> \o SortedStrs(S \ {m})

-----------------------------------------------------------------------------
(* The store: find_one(sort=[('analysis_date', -1)]) and find({...}) *)

\* find_one with the sort ascending
FindOneOldest(coll) ==
    coll[CHOOSE i \in 1..Len(coll) :
            /\ \A j \in 1..Len(coll) :
                  coll[i].analysis_date <= coll[j].analysis_date
            /\ \A j \in 1..(i - 1) :
                  coll[j].analysis_date # coll[i].analysis_date]

\* the document find_one returns: one with the greatest analysis_date (the
\* first of them in natural order); the collection is not empty
FindOneNewest(coll) ==
    coll[CHOOSE i \in 1..Len(coll) :
            /\ \A j \in 1..Len(coll) :
                  coll[j].analysis_date <= coll[i].analysis_date
            /\ \A j \in 1..(i - 1) :
                  coll[j].analysis_date # coll[i].analysis_date]

FindByDateFrom(coll, date) == SelectSeq(coll, LAMBDA d : d.analysis_date >= date)

\* list(analysis_collection.find({'analysis_date': date}))
FindByDate(coll, date) == SelectSeq(coll, LAMBDA d : d.analysis_date = date)

-----------------------------------------------------------------------------
(* get_latest_analysis: the category index and the merge *)

DictSet(dict, key, val) ==
    [n \in DOMAIN dict \cup {key} |-> IF n = key THEN val ELSE dict[n]]

\* repo_categories[repo['full_name']] = repo.get('category'), in find order
RECURSIVE RepoCategoriesFrom(_, _)
RepoCategoriesFrom(repos, dict) ==
    IF repos = <<>> THEN dict
    ELSE RepoCategoriesFrom(Tail(repos),
                            DictSet(dict, Head(repos).full_name,
                                    Head(repos).category))

EmptyDict == [n \in {} |-> NoneCat]

RepoCategories(repos) == RepoCategoriesFrom(repos, EmptyDict)

\* the merge without its else branch
MergeKeepOld(doc, repo_categories) ==
    IF doc.full_name \in DOMAIN repo_categories
    THEN [doc EXCEPT !.category = repo_categories[doc.full_name]]
    ELSE doc

\* the body of `for repo_analysis in latest_analysis`
MergeOne(doc, repo_categories) ==
    IF doc.full_name \in DOMAIN repo_categories
    THEN [doc EXCEPT !.category = repo_categories[doc.full_name]]
    ELSE [doc EXCEPT !.category = NoneCat]

MergeCategories(docs, repo_categories) ==
    [i \in 1..Len(docs) |-> MergeOne(docs[i], repo_categories)]

-----------------------------------------------------------------------------
(* convert_analysis_to_dataframe and format_metrics *)

NoFrame == [tag |-> "None", rows |-> <<>>]
Frame(rows) == [tag |-> "frame", rows |-> rows]

RowOfDoc(doc, i, first_doc) ==
    [idx |-> i,
     full_name |-> doc.full_name,
     analysis_date |-> first_doc.analysis_date,
     category |-> doc.category,
     growth_percent |-> doc.growth_percent,
     growth_per_day |-> doc.growth_per_day,
     start_stars |-> doc.start_stars,
     end_stars |-> doc.end_stars,
     star_growth |-> doc.star_growth]

convert_analysis_to_dataframe(docs) ==
    IF docs = <<>> THEN NoFrame
    ELSE Frame([i \in 1..Len(docs) |-> RowOfDoc(docs[i], i, docs[1])])

\* Series.fillna(0)
FillNa(x) == IF x.k = "null" THEN Num(0) ELSE x

\* Series.replace([float('inf'), float('-inf')], 0)
ReplaceInf(x) == IF x.k \in {"inf", "ninf"} THEN Num(0) ELSE x

\* Series.round(2): to a multiple of 0.01; NaN and the infinities stay
Round2(x) == IF x.k = "num" THEN Num(RoundDiv(x.v, 1, 10)) ELSE x

\* Series.astype(int): towards zero, on a column that holds numbers only
AsTypeInt(x) ==
    IF x.v < 0 THEN Num(-((-x.v) \div 1000) * 1000)
    ELSE Num((x.v \div 1000) * 1000)

\* the infinities left in place
FormatFloatNoInf(x) == Round2(FillNa(x))

\* the infinities replaced by NaN after the NaN were filled
FormatFloatInfToNaN(x) ==
    Round2(IF FillNa(x).k \in {"inf", "ninf"} THEN NullV ELSE FillNa(x))

FormatFloat(x) == Round2(ReplaceInf(FillNa(x)))

FormatStars(x) == AsTypeInt(ReplaceInf(FillNa(x)))

FormatRow(r) ==
    [r EXCEPT !.growth_percent = FormatFloat(@),
              !.growth_per_day = FormatFloat(@),
              !.start_stars = FormatStars(@),
              !.end_stars = FormatStars(@),
              !.star_growth = FormatStars(@)]

format_metrics(d) ==
    IF d.tag = "None" THEN d
    ELSE IF d.rows = <<>> THEN d
    ELSE Frame([i \in 1..Len(d.rows) |-> FormatRow(d.rows[i])])

-----------------------------------------------------------------------------
(* main: the filter widgets and the filters *)

\* sorted(df['category'].dropna().unique())
CategoriesOf(rows) ==
    SortedStrs({rows[i].category : i \in 1..Len(rows)} \ {NoneCat})

\* the options of the multiselect
Capitalized(cats) == [i \in 1..Len(cats) |-> CapitalizeIf(cats[i])]

\* the options at the positions picked, in option order
RECURSIVE Picked(_, _, _)
Picked(options, picks, i) ==
    IF i > Len(options) THEN <<>>
    ELSE (IF i \in picks THEN <<options[i]>> ELSE <<>>)
         \o Picked(options, picks, i + 1)

\* [cat.lower() if cat else cat for cat in selected_categories]
Lowered(sel) == [i \in 1..Len(sel) |-> LowerIf(sel[i])]

\* Series >= threshold: NaN compares False
Ge(x, t) == x.k = "inf" \/ (x.k = "num" /\ x.v >= t)

IsIn(c, sel) == \E i \in 1..Len(sel) : sel[i] = c

\* lines 291-292
FilterCategory(rows, sel, cats) ==
    IF sel # <<>> /\ Len(sel) < Len(cats)
    THEN SelectSeq(rows, LAMBDA r : IsIn(r.category, sel))
    ELSE rows

\* the threshold applied at 0 too
FilterMinAlways(rows, col, t) == SelectSeq(rows, LAMBDA r : Ge(r[col], t))

\* the comparison reversed
FilterMinBelow(rows, col, t) ==
    IF t > 0 THEN SelectSeq(rows, LAMBDA r : ~Ge(r[col], t)) ELSE rows

\* lines 294-301: `if t > 0: filtered_df = filtered_df[filtered_df[col] >= t]`
FilterMin(rows, col, t) ==
    IF t > 0 THEN SelectSeq(rows, LAMBDA r : Ge(r[col], t)) ELSE rows

\* lines 288-301
ApplyFilters(rows, sel, cats, g, sg, es) ==
    FilterMin(FilterMin(FilterMin(FilterCategory(rows, sel, cats),
                                  "growth_percent", g),
                        "star_growth", sg),
              "end_stars", es)

-----------------------------------------------------------------------------
(* main: summary statistics *)

ColSum(rows, col) == SumSeq([i \in 1..Len(rows) |-> rows[i][col].v])

ColMax(rows, col) ==
    CHOOSE m \in {rows[i][col].v : i \in 1..Len(rows)} :
        \A i \in 1..Len(rows) : rows[i][col].v <= m

NoSummary == [shown |-> FALSE, avg_growth |-> 0, max_growth |-> 0,
              total_star_growth |-> 0, avg_stars |-> 0]

\* lines 395-412, the view is not empty; the means as printed (.2f and .0f)
SummaryOf(rows) ==
    [shown |-> TRUE,
     avg_growth |-> RoundDiv(ColSum(rows, "growth_percent"), Len(rows), 10),
     max_growth |-> ColMax(rows, "growth_percent"),
     total_star_growth |-> ColSum(rows, "star_growth"),
     avg_stars |-> RoundDiv(ColSum(rows, "end_stars"), Len(rows), 1000)]

-----------------------------------------------------------------------------
(* main: category breakdown *)

CountOf(rows, c) == Len(SelectSeq(rows, LAMBDA r : r.category = c))

FirstAt(rows, c) == CHOOSE i \in 1..Len(rows) :
    rows[i].category = c /\ \A j \in 1..(i - 1) : rows[j].category # c

\* Series.value_counts(): no entry for NaN, greatest count first, equal counts
\* in order of first appearance
RECURSIVE ByCount(_, _)
ByCount(rows, S) ==
    IF S = {} THEN <<>>
    ELSE LET m == CHOOSE a \in S : \A b \in S :
                     \/ CountOf(rows, a) > CountOf(rows, b)
                     \/ /\ CountOf(rows, a) = CountOf(rows, b)
                        /\ FirstAt(rows, a) <= FirstAt(rows, b)
         IN  <<m>> \o ByCount(rows, S \ {m})

ValueCounts(rows) ==
    ByCount(rows, {rows[i].category : i \in 1..Len(rows)} \ {NoneCat})

\* groupby('category')['star_growth'].sum(): one group per category that is
\* not NaN, in sorted order
GroupSum(rows, c) ==
    ColSum(SelectSeq(rows, LAMBDA r : r.category = c), "star_growth")

\* {cat.capitalize() if cat else cat: value for cat, value in ...items()}:
\* a later key replaces an equal earlier one
RECURSIVE StarFlowDict(_, _, _)
StarFlowDict(rows, cats, dict) ==
    IF cats = <<>> THEN dict
    ELSE StarFlowDict(rows, Tail(cats),
                      DictSet(dict, CapitalizeIf(Head(cats)),
                              GroupSum(rows, Head(cats))))

\* Series / total * 100, then .round(1), in thousandths: 100 times the ratio
\* in tenths of a percent; x / 0 is NaN for x = 0, else +-inf
PercentOf(part, total) ==
    IF total = 0
    THEN (IF part = 0 THEN NullV ELSE IF part > 0 THEN PosInf ELSE NegInf)
    ELSE Num(100 * RoundDiv(part * 1000, total, 1))

\* lines 419-434
CategoryStats(rows) ==
    LET counts == ValueCounts(rows)
        flows == StarFlowDict(rows, CategoriesOf(rows), [n \in {} |-> 0])
        flow(i) == flows[CapitalizeIf(counts[i])]
        total == SumSeq([i \in 1..Len(counts) |-> flow(i)])
    IN  [i \in 1..Len(counts) |->
            [Category |-> CapitalizeIf(counts[i]),
             Count |-> CountOf(rows, counts[i]),
             Percentage |->
                 Num(100 * RoundDiv(CountOf(rows, counts[i]) * 1000,
                                    Len(rows), 1)),
             StarFlow |-> flow(i),
             PercentOfStarFlow |-> PercentOf(flow(i), total)]]

-----------------------------------------------------------------------------
(* main: top performers *)

RemoveAt(s, i) == SubSeq(s, 1, i - 1) \o SubSeq(s, i + 1, Len(s))

\* DataFrame.nlargest with keep='last'
RECURSIVE NLargestLast(_, _, _)
NLargestLast(n, rows, col) ==
    IF n = 0 \/ rows = <<>> THEN <<>>
    ELSE LET i == CHOOSE i \in 1..Len(rows) :
                     /\ \A j \in 1..Len(rows) : rows[j][col].v <= rows[i][col].v
                     /\ \A j \in (i + 1)..Len(rows) :
                           rows[j][col].v # rows[i][col].v
         IN  <<rows[i]>> \o NLargestLast(n - 1, RemoveAt(rows, i), col)

\* DataFrame.nlargest(n, col), keep='first': the n greatest values, greatest
\* first, equal values in the order of the frame (the column holds no NaN)
RECURSIVE NLargest(_, _, _)
NLargest(n, rows, col) ==
    IF n = 0 \/ rows = <<>> THEN <<>>
    ELSE LET i == CHOOSE i \in 1..Len(rows) :
                     /\ \A j \in 1..Len(rows) : rows[j][col].v <= rows[i][col].v
                     /\ \A j \in 1..(i - 1) : rows[j][col].v # rows[i][col].v
         IN  <<rows[i]>> \o NLargest(n - 1, RemoveAt(rows, i), col)

TopN == 5

\* line 467: the category column of the table, capitalized for display
ForDisplay(rows) ==
    [i \in 1..Len(rows) |-> [rows[i] EXCEPT !.category = CapitalizeIf(@)]]

\* line 456: filtered_df[filtered_df['category'].isin(top_performer_categories)]
TopPerformers(rows, sel) == SelectSeq(rows, LAMBDA r : IsIn(r.category, sel))

-----------------------------------------------------------------------------
(* Inputs *)

NoName == "None"

Doc(name, date, cat, m) ==
    [full_name |-> name, analysis_date |-> date, category |-> cat,
     growth_percent |-> m.growth_percent, growth_per_day |-> m.growth_per_day,
     start_stars |-> m.start_stars, end_stars |-> m.end_stars,
     star_growth |-> m.star_growth]

Metrics(gp, gd, ss, es, sg) ==
    [growth_percent |-> gp, growth_per_day |-> gd, start_stars |-> ss,
     end_stars |-> es, star_growth |-> sg]

Repo(name, cat) == [full_name |-> name, category |-> cat]

CatMl == <<"m", "l">>
CatWeb == <<"w", "e", "b">>
CatUpperMl == <<"M", "L">>
CatStale == <<"b", "e", "l", "l">>

\* Spec: the collections vary in names, dates and index; the metrics of a
\* document follow from its name
FetchNames == {"a/b", "c/d", NoName}
FetchDates == {1, 2}

FetchMetrics(name) ==
    IF name = "a/b"
    THEN Metrics(PosInf, Num(1434), Num(10000), Num(20000), NullV)
    ELSE IF name = "c/d"
    THEN Metrics(Num(70006), Num(2675), Num(40500), Num(68000), Num(28000))
    ELSE Metrics(Num(-12345), NegInf, NullV, Num(3000), Num(-4000))

FetchDocs == {Doc(n, d, CatStale, FetchMetrics(n)) : n \in FetchNames, d \in FetchDates}

FetchRepos == {Repo(n, c) : n \in {"a/b", "c/d"}, c \in {CatMl, NoneCat}}

\* SpecView and SpecTop: one batch, the i-th record named "r<i>" and listed in
\* the repositories collection
NameOf(i) == "r" \o ToString(i)

ViewMetrics ==
    {Metrics(Num(30000), Num(710), Num(150000), Num(200000), Num(5000)),
     Metrics(Num(-2500), Num(-710), Num(55000), Num(50000), Num(-5000)),
     Metrics(Num(0), Num(0), Num(0), Num(0), Num(0))}

ViewCats == {CatMl, CatWeb, CatUpperMl, NoneCat}

TopMetrics ==
    {Metrics(Num(10000), Num(140), Num(10000), Num(12000), Num(2000)),
     Metrics(Num(20000), Num(140), Num(5000), Num(6000), Num(1000))}

\* SpecNormalize: every column sees every raw value
RawValues ==
    {NullV, PosInf, NegInf, Num(0), Num(1234), Num(-2675), Num(125),
     Num(135), Num(-1500), Num(5000)}

RawRow(a, b) ==
    [idx |-> 1, full_name |-> "a/b", analysis_date |-> 1, category |-> NoneCat,
     growth_percent |-> a, growth_per_day |-> b, start_stars |-> b,
     end_stars |-> a, star_growth |-> b]

RawRows == {RawRow(a, b) : a \in RawValues, b \in RawValues}

\* (min_growth, min_star_growth, min_end_stars) as the number inputs give them
ThresholdSettings ==
    {<<0, 0, 0>>, <<25000, 0, 0>>, <<0, 2000, 0>>, <<0, 0, 100000>>,
     <<100, 1000, 100000>>}

-----------------------------------------------------------------------------
(* Configuration and session *)

\* a key of st.secrets or os.environ that is not set reads as None; a key
\* that st.session_state does not hold is Absent
NoValue == "None"
Absent == "absent"

\* `not x` for a string or None
Falsy(x) == x \in {NoValue, ""}

\* `a or b`
Or(a, b) == IF Falsy(a) THEN b ELSE a

\* line 124
ExpectedPassword == Or(secrets.password, environ.STREAMLIT_PASSWORD)

ConnectAlways(mongo_uri) == "db"

\* lines 15-26: None when MONGODB_URI is not set, else the database
get_mongodb_connection(mongo_uri) == IF Falsy(mongo_uri) THEN "None" ELSE "db"

PasswordMatchesAny(submitted, expected) == TRUE

\* line 131
PasswordMatches(submitted, expected) == submitted = expected

MongoUri == "mongodb://host"
Secret == "pw"
EnvSecret == "env"

\* what the user may type into the password field
Passwords == {Secret, EnvSecret, "bad"}

Configured ==
    /\ secrets = [MONGODB_URI |-> MongoUri, password |-> Secret]
    /\ environ = [STREAMLIT_PASSWORD |-> NoValue]

FreshSession == [password_correct |-> Absent, password |-> Absent]
Authenticated == [password_correct |-> "True", password |-> Absent]

-----------------------------------------------------------------------------
(* One render of main() *)

UnsetData == [tag |-> "unset", docs |-> <<>>]
NoneData == [tag |-> "None", docs |-> <<>>]

\* a render of an authenticated session with the configuration in place,
\* at the call of get_latest_analysis
InitRender ==
    /\ pc = "find_one"
    /\ Configured
    /\ session_state = Authenticated
    /\ queries = {}
    /\ renders = 1
    /\ latest_date = 0
    /\ latest_analysis = <<>>
    /\ analysis_data = UnsetData
    /\ df = NoFrame
    /\ selected_categories = <<>>
    /\ min_growth = 0
    /\ min_star_growth = 0
    /\ min_end_stars = 0
    /\ filtered_df = <<>>
    /\ summary = NoSummary
    /\ category_stats = <<>>
    /\ top_performers_df = <<>>
    /\ top_growth = <<>>
    /\ top_stars = <<>>
    /\ screen = {}
    /\ x0 = NoFrame
    /\ x1 = NoFrame
    /\ x2 = NoFrame

Init ==
    /\ analysis \in SeqsUpTo(FetchDocs, MaxDocs)
    /\ repositories \in SeqsUpTo(FetchRepos, MaxRepos)
    /\ InitRender

\* a batch of n records of one analysis run, with its index
BatchOf(ms) == [i \in 1..Len(ms) |-> Doc(NameOf(i), 1, CatStale, ms[i])]
IndexOf(cs) == [i \in 1..Len(cs) |-> Repo(NameOf(i), cs[i])]

InitView ==
    /\ \E n \in 0..MaxView :
          \E ms \in [1..n -> ViewMetrics], cs \in [1..n -> ViewCats] :
             /\ analysis = BatchOf(ms)
             /\ repositories = IndexOf(cs)
    /\ InitRender

InitTop ==
    /\ \E n \in 0..MaxTop :
          \E ms \in [1..n -> TopMetrics] :
             /\ analysis = BatchOf(ms)
             /\ repositories = IndexOf([i \in 1..n |-> CatMl])
    /\ InitRender

\* lines 30-46: the connection and the first read
FindOne ==
    /\ pc = "find_one"
    /\ IF get_mongodb_connection(secrets.MONGODB_URI) = "None"
       THEN /\ analysis_data' = NoneData
            /\ screen' = screen \cup {"error: MONGODB_URI is not set."}
            /\ pc' = "stopped"
            /\ UNCHANGED <<latest_date, queries>>
       ELSE /\ queries' = queries \cup {"analysis.find_one"}
            /\ IF analysis = <<>>
               THEN /\ analysis_data' = NoneData
                    /\ screen' = screen \cup
                         {"error: No analysis data found in MongoDB."}
                    /\ pc' = "stopped"
                    /\ UNCHANGED latest_date
               ELSE /\ latest_date' = FindOneNewest(analysis).analysis_date
                    /\ pc' = "find"
                    /\ UNCHANGED <<analysis_data, screen>>
    /\ UNCHANGED <<storeVars, latest_analysis, frameVars, viewVars, aggVars,
                   harnessVars, configVars, sessionVars>>

\* lines 49-55: the second read
FindBatch ==
    /\ pc = "find"
    /\ queries' = queries \cup {"analysis.find"}
    /\ LET found == FindByDate(analysis, latest_date)
       IN  IF found = <<>>
           THEN /\ analysis_data' = NoneData
                /\ screen' = screen \cup
                     {"error: No analysis data found for the latest analysis date."}
                /\ pc' = "stopped"
                /\ UNCHANGED latest_analysis
           ELSE /\ latest_analysis' = found
                /\ pc' = "merge"
                /\ UNCHANGED <<analysis_data, screen>>
    /\ UNCHANGED <<storeVars, latest_date, frameVars, viewVars, aggVars,
                   harnessVars, configVars, sessionVars>>

\* lines 57-70 and 170: the index, the merge, the return to main
Merge ==
    /\ pc = "merge"
    /\ queries' = queries \cup {"repositories.find"}
    /\ latest_analysis' =
          MergeCategories(latest_analysis, RepoCategories(repositories))
    /\ analysis_data' = [tag |-> "list", docs |-> latest_analysis']
    /\ pc' = "frame"
    /\ UNCHANGED <<storeVars, latest_date, frameVars, viewVars, aggVars, screen,
                   harnessVars, configVars, sessionVars>>

\* lines 176-231: the DataFrame, format_metrics, the metadata header
BuildFrame ==
    /\ pc = "frame"
    /\ LET frame == convert_analysis_to_dataframe(analysis_data.docs)
       IN  IF frame.tag = "None"
           THEN /\ screen' = screen \cup {"error: No analysis results found."}
                /\ pc' = "stopped"
                /\ UNCHANGED df
           ELSE /\ df' = format_metrics(frame)
                /\ screen' = screen \cup {"metadata"}
                /\ pc' = "filter"
    /\ UNCHANGED <<storeVars, fetchVars, viewVars, aggVars, harnessVars,
                   configVars, sessionVars, queries>>

\* lines 240-389: the filter widgets, the filters, the count and the table
Filter ==
    /\ pc = "filter"
    /\ LET categories == CategoriesOf(df.rows)
           options == Capitalized(categories)
       IN  \E picks \in SUBSET (1..Len(options)), t \in ThresholdSettings :
              /\ selected_categories' = Lowered(Picked(options, picks, 1))
              /\ min_growth' = t[1]
              /\ min_star_growth' = t[2]
              /\ min_end_stars' = t[3]
              /\ filtered_df' =
                    ApplyFilters(df.rows, selected_categories', categories,
                                 t[1], t[2], t[3])
    /\ screen' = screen \cup {"info: showing", "table"}
    /\ pc' = "aggregate"
    /\ UNCHANGED <<storeVars, fetchVars, frameVars, aggVars, harnessVars,
                   configVars, sessionVars, queries>>

\* lines 391-513: summary, category breakdown, top performers
Aggregate ==
    /\ pc = "aggregate"
    /\ IF filtered_df # <<>>
       THEN LET options == Capitalized(CategoriesOf(filtered_df))
            IN  \E picks \in SUBSET (1..Len(options)) :
                   LET top == TopPerformers(filtered_df,
                                            Lowered(Picked(options, picks, 1)))
                   IN  /\ summary' = SummaryOf(filtered_df)
                       /\ category_stats' = CategoryStats(filtered_df)
                       /\ top_performers_df' = top
                       /\ IF top # <<>>
                          THEN /\ top_growth' =
                                    ForDisplay(NLargest(TopN, top, "growth_percent"))
                               /\ top_stars' =
                                    ForDisplay(NLargest(TopN, top, "star_growth"))
                               /\ screen' = screen \cup
                                    {"summary", "breakdown", "top_growth",
                                     "top_stars"}
                          ELSE /\ UNCHANGED <<top_growth, top_stars>>
                               /\ screen' = screen \cup
                                    {"summary", "breakdown",
                                     "info: No repositories found in the selected categories"}
       ELSE UNCHANGED <<aggVars, screen>>
    /\ pc' = "done"
    /\ UNCHANGED <<storeVars, fetchVars, frameVars, viewVars, harnessVars,
                   configVars, sessionVars, queries>>

Next == FindOne \/ FindBatch \/ Merge \/ BuildFrame \/ Filter \/ Aggregate

Spec == Init /\ [][Next]_vars

SpecView == InitView /\ [][Next]_vars

SpecTop == InitTop /\ [][Next]_vars

-----------------------------------------------------------------------------
(* The session: the password gate of main() and the reruns of the script *)

GateMetrics == Metrics(Num(30000), Num(710), Num(150000), Num(200000), Num(5000))

\* a new session: nothing in st.session_state, any configuration
InitGate ==
    /\ analysis \in {<<>>, BatchOf(<<GateMetrics>>)}
    /\ repositories = IndexOf(<<CatMl>>)
    /\ secrets \in [MONGODB_URI : {NoValue, MongoUri},
                    password : {NoValue, "", Secret}]
    /\ environ \in [STREAMLIT_PASSWORD : {NoValue, EnvSecret}]
    /\ session_state = FreshSession
    /\ queries = {}
    /\ renders = 1
    /\ pc = "check_password"
    /\ latest_date = 0
    /\ latest_analysis = <<>>
    /\ analysis_data = UnsetData
    /\ df = NoFrame
    /\ selected_categories = <<>>
    /\ min_growth = 0
    /\ min_star_growth = 0
    /\ min_end_stars = 0
    /\ filtered_df = <<>>
    /\ summary = NoSummary
    /\ category_stats = <<>>
    /\ top_performers_df = <<>>
    /\ top_growth = <<>>
    /\ top_stars = <<>>
    /\ screen = {}
    /\ x0 = NoFrame
    /\ x1 = NoFrame
    /\ x2 = NoFrame

\* st.text_input(..., key="password"): the widget's value is kept in the
\* session state, the empty string when the widget is new
TextInput(state) ==
    [state EXCEPT !.password = IF @ = Absent THEN "" ELSE @]

\* lines 121-152 and 162-163: check_password, and main's st.stop when it
\* returns False
CheckPassword ==
    /\ pc = "check_password"
    /\ IF Falsy(ExpectedPassword)
       THEN /\ screen' = screen \cup {"error: Password not configured."}
            /\ pc' = "stopped"
            /\ UNCHANGED session_state
       ELSE IF session_state.password_correct = Absent
       THEN /\ session_state' = TextInput(session_state)
            /\ screen' = screen \cup {"text_input: Password"}
            /\ pc' = "prompt"
       ELSE IF session_state.password_correct = "False"
       THEN /\ session_state' = TextInput(session_state)
            /\ screen' = screen \cup
                 {"text_input: Password", "error: Password incorrect"}
            /\ pc' = "prompt"
       ELSE /\ pc' = "find_one"
            /\ UNCHANGED <<session_state, screen>>
    /\ UNCHANGED <<storeVars, fetchVars, frameVars, viewVars, aggVars,
                   harnessVars, configVars, queries, renders>>

\* the user changes the value of the password field: Streamlit stores the
\* value under the widget's key and calls on_change
Submit(p) ==
    /\ pc = "prompt"
    /\ renders < MaxRenders
    /\ p # session_state.password
    /\ session_state' = [session_state EXCEPT !.password = p]
    /\ pc' = "callback"
    /\ UNCHANGED <<storeVars, fetchVars, frameVars, viewVars, aggVars,
                   harnessVars, configVars, queries, renders, screen>>

\* lines 130-135: password_entered
PasswordEntered ==
    /\ pc = "callback"
    /\ IF PasswordMatches(session_state.password, ExpectedPassword)
       THEN session_state' = [password_correct |-> "True", password |-> Absent]
       ELSE session_state' = [session_state EXCEPT !.password_correct = "False"]
    /\ pc' = "rerun"
    /\ UNCHANGED <<storeVars, fetchVars, frameVars, viewVars, aggVars,
                   harnessVars, configVars, queries, renders, screen>>

\* the script runs again from the top: after the callback, or when the user
\* touches a widget of a finished page
Rerun ==
    /\ pc \in {"rerun", "done", "stopped"}
    /\ renders < MaxRenders
    /\ renders' = renders + 1
    /\ pc' = "check_password"
    /\ queries' = {}
    /\ screen' = {}
    /\ latest_date' = 0
    /\ latest_analysis' = <<>>
    /\ analysis_data' = UnsetData
    /\ df' = NoFrame
    /\ selected_categories' = <<>>
    /\ min_growth' = 0
    /\ min_star_growth' = 0
    /\ min_end_stars' = 0
    /\ filtered_df' = <<>>
    /\ summary' = NoSummary
    /\ category_stats' = <<>>
    /\ top_performers_df' = <<>>
    /\ top_growth' = <<>>
    /\ top_stars' = <<>>
    /\ UNCHANGED <<storeVars, harnessVars, configVars, session_state>>

NextGate ==
    \/ Next
    \/ CheckPassword
    \/ \E p \in Passwords : Submit(p)
    \/ PasswordEntered
    \/ Rerun

SpecGate == InitGate /\ [][NextGate]_vars

-----------------------------------------------------------------------------
(* A producer that inserts analysis documents while get_latest_analysis
   reads *)

ConcDocs ==
    {Doc(n, d, CatStale, FetchMetrics(n)) : n \in {"a/b", "c/d"}, d \in FetchDates}

InitConc ==
    /\ analysis \in SeqsUpTo(ConcDocs, 1)
    /\ repositories = <<Repo("a/b", CatMl)>>
    /\ InitRender

\* insert_one / insert_many of the producer, one document at a time
ProducerInsert ==
    /\ pc \in {"find_one", "find"}
    /\ Len(analysis) < MaxStore
    /\ \E d \in ConcDocs : analysis' = Append(analysis, d)
    /\ UNCHANGED <<repositories, pc, fetchVars, frameVars, viewVars, aggVars,
                   screen, harnessVars, configVars, sessionVars, queries>>

NextConc == Next \/ ProducerInsert

SpecConc == InitConc /\ [][NextConc]_vars

-----------------------------------------------------------------------------
(* Normalization harness: format_metrics applied to a batch, then to its
   own result *)

InitNormalize ==
    /\ analysis = <<>>
    /\ repositories = <<>>
    /\ Configured
    /\ session_state = Authenticated
    /\ queries = {}
    /\ renders = 1
    /\ latest_date = 0
    /\ latest_analysis = <<>>
    /\ analysis_data = UnsetData
    /\ df = NoFrame
    /\ selected_categories = <<>>
    /\ min_growth = 0
    /\ min_star_growth = 0
    /\ min_end_stars = 0
    /\ filtered_df = <<>>
    /\ summary = NoSummary
    /\ category_stats = <<>>
    /\ top_performers_df = <<>>
    /\ top_growth = <<>>
    /\ top_stars = <<>>
    /\ screen = {}
    /\ x1 = NoFrame
    /\ x2 = NoFrame
    /\ pc = "normalize"
    /\ x0 \in {NoFrame} \cup {Frame(rows) : rows \in SeqsUpTo(RawRows, MaxBatch)}

Normalize ==
    /\ pc = "normalize"
    /\ x1' = format_metrics(x0)
    /\ pc' = "normalize_again"
    /\ UNCHANGED <<storeVars, fetchVars, frameVars, viewVars, aggVars, screen,
                   x0, x2, configVars, sessionVars, queries>>

NormalizeAgain ==
    /\ pc = "normalize_again"
    /\ x2' = format_metrics(x1)
    /\ pc' = "normalized"
    /\ UNCHANGED <<storeVars, fetchVars, frameVars, viewVars, aggVars, screen,
                   x0, x1, configVars, sessionVars, queries>>

NextNormalize == Normalize \/ NormalizeAgain

SpecNormalize == InitNormalize /\ [][NextNormalize]_vars

-----------------------------------------------------------------------------
(* Claims *)

WithoutCategory(d) == [f \in DOMAIN d \ {"category"} |-> d[f]]

Returned == analysis_data.tag = "list"

NothingRendered ==
    /\ screen \cap {"metadata", "table", "summary", "breakdown", "top_growth",
                    "top_stars"} = {}
    /\ df = NoFrame
    /\ filtered_df = <<>>
    /\ ~summary.shown

\* C1: get_latest_analysis returns exactly the documents whose analysis_date
\* is the greatest in the collection, in collection order; it returns None
\* exactly when the collection is empty (no second read of an unchanged
\* collection comes back empty), and then the render stops with nothing but
\* the error on the page.
C1_LatestBatchIsNewest ==
    LET newest == SelectSeq(analysis, LAMBDA d :
                      \A e \in Range(analysis) :
                          e.analysis_date <= d.analysis_date)
    IN  /\ Returned =>
              /\ Len(analysis_data.docs) = Len(newest)
              /\ \A i \in 1..Len(newest) :
                    WithoutCategory(analysis_data.docs[i]) =
                    WithoutCategory(newest[i])
              /\ newest # <<>>
        /\ pc \in {"merge", "frame"} => latest_analysis # <<>>
        /\ pc = "merge" =>
              [i \in 1..Len(latest_analysis) |->
                  WithoutCategory(latest_analysis[i])] =
              [i \in 1..Len(newest) |-> WithoutCategory(newest[i])]
        /\ analysis_data.tag = "None" <=> (pc # "find_one" /\ analysis = <<>>)
        /\ analysis_data.tag = "None" => pc = "stopped" /\ NothingRendered
        /\ pc = "stopped" => analysis_data.tag = "None"

C1_Witness ==
    /\ Returned
    /\ Len(analysis_data.docs) < Len(analysis)
    /\ \E d \in Range(analysis) : d.analysis_date < latest_date

\* what the index holds for a name: the category of the last document of the
\* repositories collection with that name
LastListed(name) ==
    CHOOSE j \in 1..Len(repositories) :
        /\ repositories[j].full_name = name
        /\ \A k \in (j + 1)..Len(repositories) :
              repositories[k].full_name # name

Listed(name) == \E j \in 1..Len(repositories) : repositories[j].full_name = name

\* C2: the merge step gives every record of the batch the category the index
\* holds for its full_name (a null stored there included) and null when the
\* name is not in the index; it always completes, and it changes nothing else
\* of a record, nor the number or order of the records.
C2_MergeAttachesCategories ==
    [][pc = "merge" =>
          /\ pc' = "frame"
          /\ analysis_data'.docs = latest_analysis'
          /\ Len(latest_analysis') = Len(latest_analysis)
          /\ \A i \in 1..Len(latest_analysis) :
                latest_analysis'[i] =
                [latest_analysis[i] EXCEPT !.category =
                    IF Listed(latest_analysis[i].full_name)
                    THEN repositories[LastListed(latest_analysis[i].full_name)].category
                    ELSE NoneCat]]_vars

C2_Witness ==
    /\ pc = "frame"
    /\ \E d \in Range(analysis_data.docs) :
          Listed(d.full_name) /\ d.category = CatMl
    /\ \E d \in Range(analysis_data.docs) :
          ~Listed(d.full_name) /\ d.category = NoneCat
    /\ \E r \in Range(repositories) : r.category = NoneCat

FloatCols == {"growth_percent", "growth_per_day"}
StarCols == {"start_stars", "end_stars", "star_growth"}

\* C3: after format_metrics every one of the five numeric fields of every
\* record is a finite number: 0 where the input was null, +infinity or
\* -infinity; otherwise the input value, to the nearest 0.01 for
\* growth_percent and growth_per_day and cut to its integer part for the
\* star counts. The other fields and the rows themselves are as given.
C3_NormalizedIsFinite ==
    (pc # "normalize" /\ x0.tag = "frame") =>
        /\ x1.tag = "frame"
        /\ Len(x1.rows) = Len(x0.rows)
        /\ \A i \in 1..Len(x0.rows) :
              LET in == x0.rows[i]
                  out == x1.rows[i]
              IN  /\ \A c \in FloatCols \cup StarCols :
                        /\ IsFinite(out[c])
                        /\ in[c].k # "num" => out[c].v = 0
                  /\ \A c \in FloatCols :
                        in[c].k = "num" =>
                            /\ out[c].v % 10 = 0
                            /\ Abs(out[c].v - in[c].v) <= 5
                  /\ \A c \in StarCols :
                        in[c].k = "num" =>
                            /\ out[c].v % 1000 = 0
                            /\ Abs(out[c].v) <= Abs(in[c].v)
                            /\ Abs(in[c].v - out[c].v) < 1000
                  /\ \A c \in DOMAIN in \ (FloatCols \cup StarCols) :
                        out[c] = in[c]

C3_Witness ==
    /\ pc = "normalize_again"
    /\ \E i \in 1..Len(x0.rows) :
          /\ x0.rows[i].growth_percent = PosInf
          /\ x0.rows[i].star_growth = NullV
          /\ x1.rows[i].growth_percent = Num(0)
          /\ x1.rows[i].star_growth = Num(0)

\* C4: format_metrics applied to its own result gives that result again, for
\* every batch; an absent (None) or empty batch comes back as given.
C4_NormalizeIdempotent ==
    /\ pc = "normalized" => x2 = x1
    /\ (pc # "normalize" /\ (x0.tag = "None" \/ x0.rows = <<>>)) => x1 = x0

C4_Witness ==
    /\ pc = "normalized"
    /\ x0.tag = "frame"
    /\ \E i \in 1..Len(x0.rows) :
          /\ x0.rows[i].growth_percent = NegInf
          /\ x0.rows[i].star_growth = Num(-2675)
    /\ x1 # x0
    /\ x2 = x1

Filtered == pc \in {"aggregate", "done"}

\* the selection is every option of the category multiselect
AllSelected ==
    selected_categories = Lowered(Capitalized(CategoriesOf(df.rows)))

\* C5: with the three thresholds at 0 and the category selection empty or
\* holding every option, the filtered view is the normalized batch: the same
\* records in the same order, those with a negative growth_percent or
\* star_growth or a null category included.
C5_DefaultsPassThrough ==
    ( /\ Filtered
      /\ min_growth = 0 /\ min_star_growth = 0 /\ min_end_stars = 0
      /\ (selected_categories = <<>> \/ AllSelected) )
    => filtered_df = df.rows

C5_Witness ==
    /\ Filtered
    /\ min_growth = 0 /\ min_star_growth = 0 /\ min_end_stars = 0
    /\ selected_categories # <<>>
    /\ AllSelected
    /\ \E i \in 1..Len(filtered_df) :
          /\ filtered_df[i].category = NoneCat
          /\ filtered_df[i].growth_percent.v < 0
          /\ filtered_df[i].star_growth.v < 0

\* thresholds the number inputs can give, the smallest positive ones included
GrowthGrid == {0, 100, 30000}
StarGrowthGrid == {0, 1000, 5000}
EndStarsGrid == {0, 1000, 200000}

ViewAt(g, sg, es) ==
    ApplyFilters(df.rows, selected_categories, CategoriesOf(df.rows), g, sg, es)

\* C6: with the category selection fixed, a threshold setting that is
\* componentwise at least the one in force never gives a longer view, and one
\* that is componentwise at most the one in force never gives a shorter view;
\* the settings compared include 0 (no filter) and the smallest positive value
\* of each threshold.
C6_FilterMonotone ==
    Filtered =>
        \A g \in GrowthGrid \cup {min_growth},
           sg \in StarGrowthGrid \cup {min_star_growth},
           es \in EndStarsGrid \cup {min_end_stars} :
            /\ (g >= min_growth /\ sg >= min_star_growth /\ es >= min_end_stars)
                  => Len(ViewAt(g, sg, es)) <= Len(filtered_df)
            /\ (g <= min_growth /\ sg <= min_star_growth /\ es <= min_end_stars)
                  => Len(ViewAt(g, sg, es)) >= Len(filtered_df)

C6_Witness ==
    /\ Filtered
    /\ min_growth = 0 /\ min_star_growth = 0 /\ min_end_stars = 0
    /\ \E i \in 1..Len(filtered_df) : filtered_df[i].growth_percent.v < 0
    /\ Len(ViewAt(100, 0, 0)) < Len(filtered_df)
    /\ Len(ViewAt(100, 0, 0)) > 0

SameIgnoringCase(a, b) == ~IsNoneCat(a) /\ ~IsNoneCat(b) /\ StrLower(a) = StrLower(b)

\* the categories present, compared without case
PresentIgnoringCase == {StrLower(c) : c \in Range(CategoriesOf(df.rows))}

\* C7: with no threshold raised, a non-empty selection that leaves out some
\* category present keeps exactly the records whose category is, without
\* regard to case, one of those selected; an empty selection or one holding
\* every option removes no record.
C7_CategoryFilterIgnoresCase ==
    (Filtered /\ min_growth = 0 /\ min_star_growth = 0 /\ min_end_stars = 0) =>
        /\ ( /\ selected_categories # <<>>
             /\ Range(selected_categories) \subseteq PresentIgnoringCase
             /\ Range(selected_categories) # PresentIgnoringCase )
           => filtered_df =
                 SelectSeq(df.rows, LAMBDA r :
                     \E i \in 1..Len(selected_categories) :
                         SameIgnoringCase(r.category, selected_categories[i]))
        /\ (selected_categories = <<>> \/ AllSelected) => filtered_df = df.rows

\* a table row is the batch row of the same index, its category capitalized
FromBatch(row, batch) ==
    \E b \in Range(batch) : row = [b EXCEPT !.category = CapitalizeIf(@)]

TopOk(result, batch, n, col) ==
    /\ Len(result) <= n
    /\ Len(result) <= Len(batch)
    /\ Len(result) = n \/ Len(result) = Len(batch)
    /\ \A i \in 1..Len(result) : FromBatch(result[i], batch)
    /\ \A i, j \in 1..Len(result) :
          i < j =>
              /\ result[i][col].v >= result[j][col].v
              /\ result[i][col].v = result[j][col].v
                    => result[i].idx < result[j].idx
    /\ \A b \in Range(batch) :
          (\A i \in 1..Len(result) : result[i].idx # b.idx) =>
              \A i \in 1..Len(result) :
                  /\ b[col].v <= result[i][col].v
                  /\ b[col].v = result[i][col].v => result[i].idx < b.idx

\* C8: each top table holds min(n, |batch|) records of the batch it is taken
\* from, greatest metric first, no omitted record having a greater metric than
\* a listed one, and records of equal metric in batch order, the earlier one
\* listed when only some fit; for the two tables of the page (n = 5) and for
\* every other n up to the size of the batch.
C8_TopNSortedStable ==
    (pc = "done" /\ top_performers_df # <<>>) =>
        /\ TopOk(top_growth, top_performers_df, TopN, "growth_percent")
        /\ TopOk(top_stars, top_performers_df, TopN, "star_growth")
        /\ \A n \in 0..(Len(top_performers_df) + 1),
              col \in {"growth_percent", "star_growth"} :
              TopOk(ForDisplay(NLargest(n, top_performers_df, col)),
                    top_performers_df, n, col)

C8_Witness ==
    /\ pc = "done"
    /\ Len(top_performers_df) > TopN
    /\ Len(top_stars) = TopN
    /\ \E b \in Range(top_performers_df) :
          /\ \A i \in 1..Len(top_stars) : top_stars[i].idx # b.idx
          /\ b.star_growth = top_stars[TopN].star_growth
    /\ top_stars[1].star_growth.v > top_stars[TopN].star_growth.v
    /\ top_stars[1].idx > top_stars[TopN].idx

\* the category values of the view, null included
CategoryValues == {filtered_df[i].category : i \in 1..Len(filtered_df)}

EntriesFor(c) ==
    {i \in 1..Len(category_stats) : category_stats[i].Category = CapitalizeIf(c)}

\* C9: for a non-empty view the breakdown has exactly one entry for every
\* category value of the view, the null category included, with the number of
\* records of that category as its count and the sum of their star_growth as
\* its star flow.
C9_BreakdownPerCategory ==
    (pc = "done" /\ filtered_df # <<>>) =>
        /\ Len(category_stats) = Cardinality(CategoryValues)
        /\ \A c \in CategoryValues :
              /\ Cardinality(EntriesFor(c)) = 1
              /\ \A i \in EntriesFor(c) :
                    /\ category_stats[i].Count = CountOf(filtered_df, c)
                    /\ category_stats[i].StarFlow = GroupSum(filtered_df, c)

\* C10: when the star_growth of the view sums to 0, every entry of the
\* breakdown has 0 as its percentage of star flow, and no entry holds NaN or
\* an infinity.
C10_ZeroFlowGuard ==
    (pc = "done" /\ filtered_df # <<>>
        /\ ColSum(filtered_df, "star_growth") = 0) =>
        \A i \in 1..Len(category_stats) :
            /\ category_stats[i].PercentOfStarFlow = Num(0)
            /\ IsFinite(category_stats[i].PercentOfStarFlow)
            /\ IsFinite(category_stats[i].Percentage)

PercentSum(col) ==
    SumSeq([i \in 1..Len(category_stats) |-> category_stats[i][col].v])

\* C11: for a view whose star_growth sums to more than 0, the percentages of
\* rows of the breakdown add up to between 99.9 and 100.1, and so do its
\* percentages of star flow, each of them a number.
C11_PercentagesSumTo100 ==
    (pc = "done" /\ filtered_df # <<>>
        /\ ColSum(filtered_df, "star_growth") > 0) =>
        /\ \A i \in 1..Len(category_stats) :
              /\ IsFinite(category_stats[i].Percentage)
              /\ IsFinite(category_stats[i].PercentOfStarFlow)
        /\ Abs(PercentSum("Percentage") - 100000) <= 100
        /\ Abs(PercentSum("PercentOfStarFlow") - 100000) <= 100

\* C12: when the filters leave no record, the page says that the summary is
\* not available; it shows no summary values and does not pass the summary
\* over in silence.
C12_EmptySummaryReported ==
    (pc = "done" /\ filtered_df = <<>>) =>
        /\ "summary: not available" \in screen
        /\ "summary" \notin screen
        /\ ~summary.shown

\* C13: a record of the latest batch without full_name is skipped: it is not
\* in the merged batch, nor in the frame, the filtered view or the top tables,
\* while the records with a full_name are all in the merged batch and the
\* render goes on.
C13_NamelessRecordSkipped ==
    LET named == SelectSeq(FindByDate(analysis, latest_date),
                           LAMBDA d : d.full_name # NoName)
    IN  /\ Returned =>
              /\ \A i \in 1..Len(analysis_data.docs) :
                    analysis_data.docs[i].full_name # NoName
              /\ [i \in 1..Len(analysis_data.docs) |->
                     WithoutCategory(analysis_data.docs[i])] =
                 [i \in 1..Len(named) |-> WithoutCategory(named[i])]
        /\ \A i \in 1..Len(df.rows) : df.rows[i].full_name # NoName
        /\ \A i \in 1..Len(filtered_df) : filtered_df[i].full_name # NoName
        /\ \A i \in 1..Len(top_stars) : top_stars[i].full_name # NoName
        /\ (pc = "stopped" /\ analysis # <<>>) => named = <<>>

ConfigMissing == Falsy(secrets.MONGODB_URI) \/ Falsy(ExpectedPassword)

ErrorMessages ==
    {"error: Password not configured.", "error: Password incorrect",
     "error: MONGODB_URI is not set.",
     "error: No analysis data found in MongoDB.",
     "error: No analysis data found for the latest analysis date.",
     "error: No analysis results found."}

PastFirstRead == pc \in {"find", "merge", "frame", "filter", "aggregate", "done"}

C15_InputsUnchanged ==
    [][/\ pc = "merge" => latest_analysis' = latest_analysis
       /\ pc = "filter" => df' = df]_vars

\* C16: the store is queried and data is rendered only in a render of a
\* session whose password_correct is True; password_correct becomes True only
\* in password_entered with a submitted password equal to the expected one,
\* and then the submitted password is deleted from the session state; after
\* password_entered with any other password it is False.
C16_AccessGate ==
    /\ [](queries # {} \/ ~NothingRendered \/ PastFirstRead =>
             session_state.password_correct = "True")
    /\ [][/\ (session_state'.password_correct = "True"
               /\ session_state.password_correct # "True") =>
                 /\ pc = "callback"
                 /\ session_state.password = ExpectedPassword
                 /\ session_state'.password = Absent
          /\ (pc = "callback" /\ session_state.password # ExpectedPassword) =>
                 session_state'.password_correct = "False"
          /\ (pc = "callback" /\ session_state.password = ExpectedPassword) =>
                 session_state' = Authenticated
          /\ session_state.password_correct = "True" =>
                 session_state' = session_state]_vars

C16_Witness ==
    /\ renders >= 3
    /\ session_state = Authenticated
    /\ "table" \in screen
    /\ "repositories.find" \in queries

\* C17: with a producer inserting analysis documents at any time before and
\* between the two reads, a result that is not None is not empty and each of
\* its records, and each row of the frame made of it, has the analysis_date
\* the first read obtained.
C17_SingleDateBatch ==
    /\ Returned =>
          /\ analysis_data.docs # <<>>
          /\ \A i \in 1..Len(analysis_data.docs) :
                analysis_data.docs[i].analysis_date = latest_date
    /\ pc = "merge" =>
          /\ latest_analysis # <<>>
          /\ \A i \in 1..Len(latest_analysis) :
                latest_analysis[i].analysis_date = latest_date
    /\ \A i \in 1..Len(df.rows) : df.rows[i].analysis_date = latest_date

C17_Witness ==
    /\ Returned
    /\ df.rows # <<>>
    /\ \E i \in 1..Len(analysis) : analysis[i].analysis_date > latest_date

=============================================================================
